---- MODULE Spec2Model ----
(***************************************************************************)
(* The MAVLink-to-Lattice telemetry pipeline: stream_position (the         *)
(* connection supervisor and the tasks of one connection epoch),           *)
(* publish_at_interval (the sampler), the asyncio.Queue between them and   *)
(* start_publisher (the entity publisher).                                 *)
(*                                                                         *)
(* asyncio is single-threaded and cooperative: a coroutine runs from one   *)
(* await to the next without interruption, so every action below is the    *)
(* code between two suspension points of one task.                         *)
(***************************************************************************)
EXTENDS Integers, Sequences, FiniteSets, TLC

\* ------------------------------------------------------------------ bounds
\* Iterations of the "while True" retry loop of stream_position that are explored.
MaxAttempts == 2
\* Largest clock value explored, in minutes.
MaxClock == 10
\* Minutes by which one step of the clock advances it.
ClockStep == 5
\* Items the unbounded queue of main.py is allowed to hold in the model.
MaxQueueLen == 11
\* Field streams that end or raise within one epoch.
MaxStreamEnds == 1

\* ------------------------------------------------------- program constants
\* asyncio.Queue(maxsize=10) in lattice_publisher.main
QueueMaxsize == 10
\* asyncio.Queue() in main.main: maxsize 0 means "no limit"
QueueUnbounded == 0
\* expiry_time = current_time + timedelta(minutes=5)
ExpiryMinutes == 5
\* expiry_time=expiry_time + timedelta(minutes=5) in the publish_entity call
ExtraExpiryMinutes == 5

Entries == {"lattice_publisher", "main"}
Fields == {"position", "velocity", "altitude", "odometry"}
Kinds == Fields \cup {"connection", "sampler"}
Attempts == 1..MaxAttempts

\* Python's None
None == [none |-> TRUE]

\* ------------------------------------------------------------------ floats
\* A Python float: a finite value (here an integer), nan, or an infinity
\* (v is its sign).
Finite(v) == [k |-> "finite", v |-> v]
NaN == [k |-> "nan", v |-> 0]
Infinity(sign) == [k |-> "inf", v |-> sign]

\* math.isnan, math.isinf
isnan(x) == x.k = "nan"
isinf(x) == x.k = "inf"

\* ------------------------------------------------------------- quaternions
\* Components of a quaternion are integers in units of 1/QuatScale, so that
\* the half-integer unit quaternions are representable.
QuatScale == 2

Quat(x, y, z, w) == [x |-> x, y |-> y, z |-> z, w |-> w]

\* Squared norm, in units of 1/QuatScale^2
norm2(q) == q.x * q.x + q.y * q.y + q.z * q.z + q.w * q.w

\* ----------------------------------------------------------------- samples
\* The samples the field streams deliver. A position carries its latitude
\* (0 on the equator, 1 elsewhere).
PositionSamples == {[latitude_deg |-> l] : l \in {0, 1}}
VelocitySamples == {[velocity |-> [north_m_s |-> 1, east_m_s |-> 2, down_m_s |-> 3]]}
AltitudeSamples == {[altitude_terrain_m |-> Finite(7), altitude_local_m |-> Finite(3)]}
OdometrySamples == {[q |-> Quat(0, 0, 0, QuatScale)]}

VARIABLES
    entry,           \* the entry point that built the queue
    queue,           \* the asyncio.Queue: a sequence of 4-tuples
    telemetry_data,  \* the module-level dict of telemetry_stream.py
    received,        \* per field, the attempt whose consume_* task stored the value
                     \* telemetry_data holds (0: none since the last connect
                     \* attempt began); a history variable
    is_connected,    \* conn.is_connected
    sup_pc,          \* where stream_position is suspended
    attempt,         \* iteration of the retry loop (the epoch)
    tasks_bound,     \* whether the local variable "tasks" has been assigned
    tasks,           \* the task list "tasks" of stream_position
    alive,           \* tasks created and not finished, as <<attempt, kind>>
    previous_state,  \* attempts whose running handle_connection has previous_state = True
    sampler_pc,      \* "sleep", or "put" while blocked in queue.put
    pending,         \* the tuple a blocked queue.put holds
    pub_pc,          \* where start_publisher is suspended
    current_time,    \* start_publisher's current_time
    expiry_time,     \* start_publisher's expiry_time
    clock,           \* datetime.now(timezone.utc), in minutes
    sink             \* the client.entities.publish_entity call being made, or None

vars == <<entry, queue, telemetry_data, received, is_connected, sup_pc, attempt, tasks_bound,
          tasks, alive, previous_state, sampler_pc, pending, pub_pc,
          current_time, expiry_time, clock, sink>>

supVars == <<sup_pc, attempt, tasks_bound, tasks>>
pubVars == <<pub_pc, current_time, expiry_time, sink>>
samplerVars == <<sampler_pc, pending>>

\* ------------------------------------------------------------------- queue
maxsize == IF entry = "lattice_publisher" THEN QueueMaxsize ELSE QueueUnbounded

\* asyncio.Queue.full()
full(q) == maxsize > 0 /\ Len(q) >= maxsize

\* ConnectionManager.__init__ and the module-level telemetry_data
Init ==
    /\ entry \in Entries
    /\ queue = <<>>
    /\ telemetry_data = [f \in Fields |-> None]
    /\ received = [f \in Fields |-> 0]
    /\ is_connected = FALSE
    /\ sup_pc = "start"
    /\ attempt = 0
    /\ tasks_bound = FALSE
    /\ tasks = {}
    /\ alive = {}
    /\ previous_state = {}
    /\ sampler_pc = "sleep"
    /\ pending = None
    /\ pub_pc = "top"
    /\ current_time = 0
    /\ expiry_time = 0
    /\ clock = 0
    /\ sink = None

\* client.entities.publish_entity is a synchronous call: while it is being made
\* the event loop runs no other task
loop_free == pub_pc # "publish"

running(a, k) == <<a, k>> \in alive

\* ------------------------------------------------------- stream_position
\* The finally block. conn.is_connected = False, then task.cancel() for every
\* task of the list "tasks" as it is bound at that moment (ts; al: the tasks
\* alive then) and await asyncio.gather(*tasks, return_exceptions=True): each
\* cancelled task is resumed with CancelledError at its await and finishes
\* without running any other code, after which the retry delay is awaited.
\* With "tasks" unbound the for statement raises UnboundLocalError, which
\* leaves stream_position.
cleanup(bound, ts, al) ==
    /\ is_connected' = FALSE
    /\ IF bound
         THEN /\ alive' = al \ ts
              /\ previous_state' =
                    previous_state \ {a \in Attempts : <<a, "connection">> \in ts}
              /\ IF \E a \in Attempts : <<a, "sampler">> \in ts \cap al
                   THEN sampler_pc' = "sleep" /\ pending' = None
                   ELSE UNCHANGED samplerVars
              /\ sup_pc' = "retry"
         ELSE /\ alive' = al
              /\ UNCHANGED <<previous_state, samplerVars>>
              /\ sup_pc' = "raised"

\* while True: conn.drone = System(); await conn.drone.connect(...)
connect ==
    /\ loop_free
    /\ sup_pc \in {"start", "retry"}
    /\ attempt < MaxAttempts
    /\ attempt' = attempt + 1
    /\ sup_pc' = "connect"
    /\ received' = [f \in Fields |-> 0]
    /\ UNCHANGED <<entry, queue, telemetry_data, is_connected, tasks_bound,
                   tasks, alive, previous_state, samplerVars, pubVars, clock>>

\* connect returned: connection_task = asyncio.create_task(handle_connection()),
\* then the set_rate_* calls are awaited
connect_ok ==
    /\ loop_free
    /\ sup_pc = "connect"
    /\ alive' = alive \cup {<<attempt, "connection">>}
    /\ sup_pc' = "set_rate"
    /\ UNCHANGED <<entry, queue, telemetry_data, received, is_connected, attempt,
                   tasks_bound, tasks, previous_state, samplerVars, pubVars, clock>>

\* connect raised: except Exception, then the finally block
connect_raises ==
    /\ loop_free
    /\ sup_pc = "connect"
    /\ cleanup(tasks_bound, tasks, alive)
    /\ UNCHANGED <<entry, queue, telemetry_data, received, attempt, tasks_bound, tasks,
                   pubVars, clock>>

\* The list built once the rates are set: connection_task and the five new tasks
epoch_tasks(a) == {<<a, k>> : k \in Kinds}

\* set_rate_* returned: the consumers and the sampler are created, "tasks" is
\* bound, and the wait loop tests conn.is_connected for the first time
set_rate_ok ==
    /\ loop_free
    /\ sup_pc = "set_rate"
    /\ tasks' = epoch_tasks(attempt)
    /\ tasks_bound' = TRUE
    /\ LET created == alive \cup {<<attempt, k>> : k \in Kinds \ {"connection"}}
       IN IF is_connected
            THEN /\ alive' = created
                 /\ sup_pc' = "wait"
                 /\ UNCHANGED <<is_connected, previous_state, samplerVars>>
            ELSE cleanup(TRUE, tasks', created)
    /\ UNCHANGED <<entry, queue, telemetry_data, received, attempt, pubVars, clock>>

\* one of the set_rate_* calls raised: except Exception, then the finally block,
\* with "tasks" still what the previous epoch left
set_rate_raises ==
    /\ loop_free
    /\ sup_pc = "set_rate"
    /\ cleanup(tasks_bound, tasks, alive)
    /\ UNCHANGED <<entry, queue, telemetry_data, received, attempt, tasks_bound, tasks,
                   pubVars, clock>>

\* while conn.is_connected: await asyncio.sleep(1)
wait_connected ==
    /\ loop_free
    /\ sup_pc = "wait"
    /\ IF is_connected
         THEN UNCHANGED <<is_connected, alive, previous_state, samplerVars, sup_pc>>
         ELSE cleanup(tasks_bound, tasks, alive)
    /\ UNCHANGED <<entry, queue, telemetry_data, received, attempt, tasks_bound, tasks,
                   pubVars, clock>>

\* ----------------------------------------------------- handle_connection
\* One state of conn.drone.core.connection_state() reaches the monitor of attempt a
handle_connection(a, state) ==
    /\ loop_free
    /\ running(a, "connection")
    /\ LET \* previous_state is None until a connected state was seen, True after
           differs == a \notin previous_state \/ ~state
       IN IF differs
            THEN /\ is_connected' = state
                 /\ IF state
                      THEN /\ previous_state' = previous_state \cup {a}
                           /\ alive' = alive
                      ELSE /\ previous_state' = previous_state \ {a}
                           /\ alive' = alive \ {<<a, "connection">>}
            ELSE UNCHANGED <<is_connected, previous_state, alive>>
    /\ UNCHANGED <<entry, queue, telemetry_data, received, supVars, samplerVars,
                   pubVars, clock>>

\* -------------------------------------------------------------- consume_*
\* async for position in ...position(): one sample reaches the task of attempt a
consume_position(a, position) ==
    /\ loop_free
    /\ running(a, "position")
    /\ IF is_connected /\ position.latitude_deg # 0
         THEN /\ telemetry_data' = [telemetry_data EXCEPT !["position"] = position]
              /\ received' = [received EXCEPT !["position"] = a]
         ELSE UNCHANGED <<telemetry_data, received>>
    /\ UNCHANGED <<entry, queue, is_connected, supVars, alive,
                   previous_state, samplerVars, pubVars, clock>>

consume_velocity(a, velocity) ==
    /\ loop_free
    /\ running(a, "velocity")
    /\ IF is_connected
         THEN /\ telemetry_data' = [telemetry_data EXCEPT !["velocity"] = velocity]
              /\ received' = [received EXCEPT !["velocity"] = a]
         ELSE UNCHANGED <<telemetry_data, received>>
    /\ UNCHANGED <<entry, queue, is_connected, supVars, alive,
                   previous_state, samplerVars, pubVars, clock>>

consume_altitude(a, altitude) ==
    /\ loop_free
    /\ running(a, "altitude")
    /\ IF is_connected
         THEN /\ telemetry_data' = [telemetry_data EXCEPT !["altitude"] = altitude]
              /\ received' = [received EXCEPT !["altitude"] = a]
         ELSE UNCHANGED <<telemetry_data, received>>
    /\ UNCHANGED <<entry, queue, is_connected, supVars, alive,
                   previous_state, samplerVars, pubVars, clock>>

consume_odometry(a, odometry) ==
    /\ loop_free
    /\ running(a, "odometry")
    /\ IF is_connected
         THEN /\ telemetry_data' = [telemetry_data EXCEPT !["odometry"] = odometry]
              /\ received' = [received EXCEPT !["odometry"] = a]
         ELSE UNCHANGED <<telemetry_data, received>>
    /\ UNCHANGED <<entry, queue, is_connected, supVars, alive,
                   previous_state, samplerVars, pubVars, clock>>

\* The field stream of a consume_* task ends or raises: the async for is left
\* and the task finishes; nothing awaits it before the finally block
stream_ends(a, f) ==
    /\ loop_free
    /\ running(a, f)
    /\ Cardinality({g \in Fields : <<a, g>> \notin alive}) < MaxStreamEnds
    /\ alive' = alive \ {<<a, f>>}
    /\ UNCHANGED <<entry, queue, telemetry_data, received, is_connected, supVars,
                   previous_state, samplerVars, pubVars, clock>>

\* ---------------------------------------------------- publish_at_interval
\* Mutant of all_values: any() in place of all()
any_values(td) == \E f \in Fields : td[f] # None

\* all(telemetry_data.values()): the samples are plain objects, truthy unless None
all_values(td) == \A f \in Fields : td[f] # None

\* Mutant of snapshot: the velocity put in the tuple is not the current one
snapshot_stale(td) ==
    <<td["position"], CHOOSE v \in VelocitySamples : TRUE, td["altitude"], td["odometry"]>>

\* The tuple handed to queue.put
snapshot(td) == <<td["position"], td["velocity"], td["altitude"], td["odometry"]>>

\* One tick of the sampler of attempt a: the test, then await queue.put(...),
\* which returns at once when there is room and suspends when the queue is full
publish_at_interval(a) ==
    /\ loop_free
    /\ running(a, "sampler")
    /\ sampler_pc = "sleep"
    /\ IF is_connected /\ all_values(telemetry_data)
         THEN IF full(queue)
                THEN /\ pending' = snapshot(telemetry_data)
                     /\ sampler_pc' = "put"
                     /\ queue' = queue
                ELSE /\ Len(queue) < MaxQueueLen
                     /\ queue' = Append(queue, snapshot(telemetry_data))
                     /\ UNCHANGED samplerVars
         ELSE UNCHANGED <<queue, samplerVars>>
    /\ UNCHANGED <<entry, telemetry_data, received, is_connected, supVars, alive,
                   previous_state, pubVars, clock>>

\* A slot was freed: the suspended queue.put completes with the tuple it holds
put_resumes(a) ==
    /\ loop_free
    /\ running(a, "sampler")
    /\ sampler_pc = "put"
    /\ ~full(queue)
    /\ queue' = Append(queue, pending)
    /\ pending' = None
    /\ sampler_pc' = "sleep"
    /\ UNCHANGED <<entry, telemetry_data, received, is_connected, supVars, alive,
                   previous_state, pubVars, clock>>

\* -------------------------------------------------------- start_publisher
\* Mutant of agl_altitude: an infinite terrain altitude is passed on
agl_altitude_noinf(altitude) ==
    LET agl == altitude.altitude_terrain_m
    IN IF agl = None \/ isnan(agl)
         THEN altitude.altitude_local_m
         ELSE agl

\* agl = altitude.altitude_terrain_m; if agl is None or math.isnan(agl) or
\* math.isinf(agl): agl_altitude = altitude.altitude_local_m, else agl
agl_altitude(altitude) ==
    LET agl == altitude.altitude_terrain_m
    IN IF agl = None \/ isnan(agl) \/ isinf(agl)
         THEN altitude.altitude_local_m
         ELSE agl

\* Mutant of velocity_enu: the down component is not negated
velocity_enu_down(velocity) ==
    [e |-> velocity.velocity.east_m_s,
     n |-> velocity.velocity.north_m_s,
     u |-> velocity.velocity.down_m_s]

\* Enu(e=velocity.velocity.east_m_s, n=velocity.velocity.north_m_s,
\*     u=-velocity.velocity.down_m_s)
velocity_enu(velocity) ==
    [e |-> velocity.velocity.east_m_s,
     n |-> velocity.velocity.north_m_s,
     u |-> -velocity.velocity.down_m_s]

\* The integer square root of a perfect square
isqrt(n) == CHOOSE s \in 0..n : s * s = n

\* R.from_quat(ned_q): the quaternion is normalised (divided by its norm); a
\* quaternion of norm zero raises ValueError, which the caller tests first.
\* The inputs explored have a norm that is a multiple of 1/QuatScale.
from_quat(q) ==
    LET s == isqrt(norm2(q))
    IN Quat((q.x * QuatScale) \div s, (q.y * QuatScale) \div s,
            (q.z * QuatScale) \div s, (q.w * QuatScale) \div s)

\* The components of r_ned_to_enu below are in units of 1/sqrt(EulerScale2)
EulerScale2 == 2

\* Mutant of r_ned_to_enu: a fixed rotation that is not of unit norm
r_ned_to_enu_skew == Quat(1, 1, 1, 0)

\* R.from_euler('xyz', [np.pi, 0, np.pi / 2]): the half turn about the axis
\* (1, 1, 0)/sqrt(2), that is the quaternion (x, y, z, w) = (1, 1, 0, 0)/sqrt(2)
r_ned_to_enu == Quat(1, 1, 0, 0)

\* r_ned_to_enu * r_ned: the Hamilton product p q of the two quaternions
compose(p, q) ==
    Quat(p.w * q.x + p.x * q.w + p.y * q.z - p.z * q.y,
         p.w * q.y - p.x * q.z + p.y * q.w + p.z * q.x,
         p.w * q.z + p.x * q.y - p.y * q.x + p.z * q.w,
         p.w * q.w - p.x * q.x - p.y * q.y - p.z * q.z)

\* Mutant of on_error: an unexpected exception ends the loop
on_error_break == "done"

\* Where "except Exception as error" sends the loop: await asyncio.sleep(1)
on_error == "error_sleep"

\* The rest of one iteration once queue.get() has returned item: the None
\* check ("continue"), the processing of the values (R.from_quat raises on a
\* quaternion of norm zero, which the outer "except Exception" catches), then
\* the publish_entity call with expiry_time=expiry_time + timedelta(minutes=5);
\* the call returns (ok) or raises
iteration(item, expiry, ok) ==
    IF \E i \in 1..4 : item[i] = None
      THEN /\ pub_pc' = "top"
           /\ sink' = None
      ELSE IF norm2(item[4].q) = 0
             THEN /\ pub_pc' = on_error
                  /\ sink' = None
             ELSE /\ sink' = [expiry_time |-> expiry + ExtraExpiryMinutes,
                              at |-> clock,
                              sample |-> item,
                              altitude_agl_meters |-> agl_altitude(item[3]),
                              velocity_enu |-> velocity_enu(item[2]),
                              attitude_enu |-> compose(r_ned_to_enu, from_quat(item[4].q)),
                              ok |-> ok]
                  /\ pub_pc' = "publish"

\* Top of the "while True": the clock is read, then queue.get() either returns
\* at once (an item is waiting) or suspends the publisher
start_publisher ==
    /\ pub_pc = "top"
    /\ current_time' = clock
    /\ expiry_time' = clock + ExpiryMinutes
    /\ IF queue = <<>>
         THEN /\ pub_pc' = "get"
              /\ UNCHANGED <<queue, sink>>
         ELSE /\ queue' = Tail(queue)
              /\ \E ok \in BOOLEAN : iteration(Head(queue), expiry_time', ok)
    /\ UNCHANGED <<entry, telemetry_data, received, is_connected, supVars, alive,
                   previous_state, samplerVars, clock>>

\* An item arrived while the publisher was suspended in queue.get()
get_resumes ==
    /\ pub_pc = "get"
    /\ queue # <<>>
    /\ queue' = Tail(queue)
    /\ \E ok \in BOOLEAN : iteration(Head(queue), expiry_time, ok)
    /\ UNCHANGED <<entry, telemetry_data, received, is_connected, supVars, alive,
                   previous_state, samplerVars, current_time, expiry_time, clock>>

\* publish_entity returned: await asyncio.sleep(1.0)
publish_returns ==
    /\ pub_pc = "publish"
    /\ sink.ok
    /\ pub_pc' = "sleep"
    /\ sink' = None
    /\ UNCHANGED <<entry, queue, telemetry_data, received, is_connected, supVars, alive,
                   previous_state, samplerVars, current_time,
                   expiry_time, clock>>

\* Mutant of on_publish_error: the publish error ends the loop
on_publish_error_break == "done"

\* Where "except Exception as publish_error" sends the loop: "continue"
on_publish_error == "top"

\* publish_entity raised: the error is logged and the loop continues
publish_raises ==
    /\ pub_pc = "publish"
    /\ ~sink.ok
    /\ pub_pc' = on_publish_error
    /\ sink' = None
    /\ UNCHANGED <<entry, queue, telemetry_data, received, is_connected, supVars, alive,
                   previous_state, samplerVars, current_time,
                   expiry_time, clock>>

\* await asyncio.sleep(1.0) returns
sleep_done ==
    /\ loop_free
    /\ pub_pc = "sleep"
    /\ pub_pc' = "top"
    /\ UNCHANGED <<entry, queue, telemetry_data, received, is_connected, supVars, alive,
                   previous_state, samplerVars, current_time,
                   expiry_time, sink, clock>>

\* "except Exception as error": await asyncio.sleep(1) returns
error_sleep_done ==
    /\ loop_free
    /\ pub_pc = "error_sleep"
    /\ pub_pc' = "top"
    /\ UNCHANGED <<entry, queue, telemetry_data, received, is_connected, supVars, alive,
                   previous_state, samplerVars, current_time,
                   expiry_time, sink, clock>>

\* ------------------------------------------------------------------- main
\* stream_position raised: asyncio.gather hands the exception to main, whose
\* finally block (asyncio.run for main.py) cancels every remaining task
shutdown ==
    /\ loop_free
    /\ sup_pc = "raised"
    /\ sup_pc' = "exited"
    /\ alive' = {}
    /\ previous_state' = {}
    /\ sampler_pc' = "sleep"
    /\ pending' = None
    /\ pub_pc' = "done"
    /\ UNCHANGED <<entry, queue, telemetry_data, received, is_connected, attempt, tasks_bound,
                   tasks, current_time, expiry_time, sink, clock>>

\* ------------------------------------------------------------------ clock
\* Wall-clock time passes
tick ==
    /\ loop_free
    /\ clock + ClockStep <= MaxClock
    /\ clock' = clock + ClockStep
    /\ UNCHANGED <<entry, queue, telemetry_data, received, is_connected, supVars, alive,
                   previous_state, samplerVars, pubVars>>

\* ------------------------------------------------------------------- spec
Next ==
    \/ connect
    \/ connect_ok
    \/ connect_raises
    \/ set_rate_ok
    \/ set_rate_raises
    \/ wait_connected
    \/ \E a \in Attempts, state \in BOOLEAN : handle_connection(a, state)
    \/ \E a \in Attempts : \E position \in PositionSamples : consume_position(a, position)
    \/ \E a \in Attempts : \E velocity \in VelocitySamples : consume_velocity(a, velocity)
    \/ \E a \in Attempts : \E altitude \in AltitudeSamples : consume_altitude(a, altitude)
    \/ \E a \in Attempts : \E odometry \in OdometrySamples : consume_odometry(a, odometry)
    \/ \E a \in Attempts, f \in Fields : stream_ends(a, f)
    \/ \E a \in Attempts : publish_at_interval(a)
    \/ \E a \in Attempts : put_resumes(a)
    \/ start_publisher
    \/ get_resumes
    \/ publish_returns
    \/ publish_raises
    \/ sleep_done
    \/ shutdown
    \/ tick

Spec == Init /\ [][Next]_vars

\* ------------------------------------------------- start_publisher alone
\* start_publisher(queue) handles whatever its queue holds. The inputs below
\* are the values one dequeued tuple can carry: a terrain altitude that is
\* missing, nan, infinite or finite, NED velocities, and orientation
\* quaternions that are of unit norm, of norm 2, or zero (an unset orientation).
AltitudeInputs ==
    {[altitude_terrain_m |-> t, altitude_local_m |-> l] :
        t \in {None, NaN, Infinity(1), Infinity(-1), Finite(7)},
        l \in {Finite(3), NaN}}

VelocityInputs ==
    {[velocity |-> [north_m_s |-> v[1], east_m_s |-> v[2], down_m_s |-> v[3]]] :
        v \in {<<1, 2, 3>>, <<-2, 0, 1>>, <<0, 5, -4>>}}

QuatInputs ==
    {q \in [x : -QuatScale..QuatScale, y : -QuatScale..QuatScale,
            z : -QuatScale..QuatScale, w : -QuatScale..QuatScale] :
        norm2(q) = QuatScale * QuatScale}
    \cup {Quat(0, 0, 0, 2 * QuatScale), Quat(QuatScale, QuatScale, QuatScale, QuatScale),
          Quat(0, 0, 0, 0)}

OdometryInputs == {[q |-> q] : q \in QuatInputs}

\* A complete tuple as publish_at_interval enqueues it
BaseItem ==
    <<[latitude_deg |-> 1],
      CHOOSE v \in VelocitySamples : TRUE,
      CHOOSE a \in AltitudeSamples : TRUE,
      CHOOSE o \in OdometrySamples : TRUE>>

\* The tuples start_publisher is given: complete ones over the inputs, and
\* tuples with a None component, which line 65 guards against
Items ==
    {<<[latitude_deg |-> 1], v, a, o>> :
        v \in VelocityInputs, a \in AltitudeInputs, o \in OdometryInputs}
    \cup {[BaseItem EXCEPT ![i] = None] : i \in 1..4}

\* start_publisher at its first iteration with one or two tuples waiting and
\* no producer running
PublisherInit ==
    /\ entry \in Entries
    /\ queue \in {<<i>> : i \in Items} \cup {<<i, BaseItem>> : i \in Items}
    /\ telemetry_data = [f \in Fields |-> None]
    /\ received = [f \in Fields |-> 0]
    /\ is_connected = FALSE
    /\ sup_pc = "start"
    /\ attempt = 0
    /\ tasks_bound = FALSE
    /\ tasks = {}
    /\ alive = {}
    /\ previous_state = {}
    /\ sampler_pc = "sleep"
    /\ pending = None
    /\ pub_pc = "top"
    /\ current_time = 0
    /\ expiry_time = 0
    /\ clock = 0
    /\ sink = None

PublisherNext ==
    \/ start_publisher
    \/ publish_returns
    \/ publish_raises
    \/ sleep_done
    \/ error_sleep_done

\* The publisher is one coroutine: the event loop resumes it whenever it is
\* ready, the synchronous publish_entity call returns or raises, and the
\* sleeps end.
PublisherSpec == PublisherInit /\ [][PublisherNext]_vars /\ WF_vars(PublisherNext)

\* -------------------------------------------------------- one active epoch
\* The velocities the stream delivers in the course of an epoch
VelocityStream ==
    VelocitySamples \cup {[velocity |-> [north_m_s |-> -2, east_m_s |-> 0, down_m_s |-> 1]]}

\* An active epoch: the first attempt has connected, the monitor has recorded
\* the connected state, the rates are set and the six tasks run
SamplerInit ==
    /\ entry \in Entries
    /\ queue = <<>>
    /\ telemetry_data = [f \in Fields |-> None]
    /\ received = [f \in Fields |-> 0]
    /\ is_connected = TRUE
    /\ sup_pc = "wait"
    /\ attempt = 1
    /\ tasks_bound = TRUE
    /\ tasks = epoch_tasks(1)
    /\ alive = epoch_tasks(1)
    /\ previous_state = {1}
    /\ sampler_pc = "sleep"
    /\ pending = None
    /\ pub_pc = "top"
    /\ current_time = 0
    /\ expiry_time = 0
    /\ clock = 0
    /\ sink = None

\* The consumers, the sampler and the publisher while the epoch lasts
SamplerNext ==
    \/ \E a \in Attempts : \E position \in PositionSamples : consume_position(a, position)
    \/ \E a \in Attempts : \E velocity \in VelocityStream : consume_velocity(a, velocity)
    \/ \E a \in Attempts : \E altitude \in AltitudeSamples : consume_altitude(a, altitude)
    \/ \E a \in Attempts : \E odometry \in OdometrySamples : consume_odometry(a, odometry)
    \/ \E a \in Attempts : publish_at_interval(a)
    \/ \E a \in Attempts : put_resumes(a)
    \/ start_publisher
    \/ get_resumes
    \/ publish_returns
    \/ publish_raises
    \/ sleep_done

SamplerSpec == SamplerInit /\ [][SamplerNext]_vars

\* ------------------------------------------------- stream_position alone
\* stream_position between two epochs: an earlier epoch (numbered 0) ran and
\* was torn down, so "tasks" is bound to its six finished tasks, and the
\* retry delay is being awaited. The attempts that follow are numbered from 1.
SupervisorInit ==
    /\ entry \in Entries
    /\ queue = <<>>
    /\ telemetry_data = [f \in Fields |-> None]
    /\ received = [f \in Fields |-> 0]
    /\ is_connected = FALSE
    /\ sup_pc = "retry"
    /\ attempt = 0
    /\ tasks_bound = TRUE
    /\ tasks = epoch_tasks(0)
    /\ alive = {}
    /\ previous_state = {}
    /\ sampler_pc = "sleep"
    /\ pending = None
    /\ pub_pc = "get"
    /\ current_time = 0
    /\ expiry_time = ExpiryMinutes
    /\ clock = 0
    /\ sink = None

\* A step of the stream_position coroutine itself
SupervisorStep ==
    \/ connect
    \/ connect_ok
    \/ connect_raises
    \/ set_rate_ok
    \/ set_rate_raises
    \/ wait_connected

\* The supervisor, the connection monitors and the ends of the field streams
SupervisorNext ==
    \/ SupervisorStep
    \/ \E a \in Attempts, state \in BOOLEAN : handle_connection(a, state)
    \/ \E a \in Attempts, f \in Fields : stream_ends(a, f)

\* stream_position is resumed whenever it can go on: its awaits return or
\* raise and its sleeps end. What the connection-state streams deliver, and
\* when, is left to the environment.
SupervisorSpec ==
    SupervisorInit /\ [][SupervisorNext]_vars /\ WF_vars(SupervisorStep)

\* ----------------------------------------------------------------- claims
\* A step in which publish_at_interval builds a tuple and enqueues it at once
enqueues == sampler_pc = "sleep" /\ sampler_pc' = "sleep" /\ Len(queue') = Len(queue) + 1

\* C1: after a reconnection (attempt >= 2) every tuple publish_at_interval
\* enqueues is built only from field values received during the current epoch.
C1_NoStaleSample ==
    [][(enqueues /\ attempt >= 2) => \A f \in Fields : received[f] = attempt]_vars

\* C2: an exception raised by connect never leaves stream_position: from the
\* await of connect the supervisor goes on to the rate configuration or to the
\* teardown and retry, on every attempt including the first.
C2_ConnectErrorCaught ==
    [][sup_pc = "connect" => sup_pc' \in {"connect", "set_rate", "retry"}]_vars

\* A field task of the running epoch has finished
field_task_dead == \E f \in Fields : <<attempt, f>> \notin alive

\* C3: when a field task of the running epoch has ended while the connection
\* still reports connected and the event loop is free, the supervisor's wait
\* loop leaves the epoch (it can go to the teardown).
C3_StreamEndTearsDown ==
    (loop_free /\ sup_pc = "wait" /\ is_connected /\ field_task_dead)
        => ENABLED (wait_connected /\ sup_pc' = "retry")

\* C4: publish_at_interval is never suspended in queue.put: on a full queue the
\* sample is dropped and the sampler goes on to its next tick.
C4_SamplerNeverBlocked == sampler_pc # "put"

\* The horizon of a publish_entity call made without waiting for a sample
Horizon == ExpiryMinutes + ExtraExpiryMinutes

\* C5: for every publish_entity call the expiry_time passed equals the clock at
\* the instant of the call plus one fixed horizon.
C5_ExpiryIsClockPlusHorizon ==
    pub_pc = "publish" => sink.expiry_time = sink.at + Horizon

\* C6: for every publish_entity call the expiry_time passed is later than the
\* clock at the instant of the call by at least 5 minutes.
C6_ExpiryInFuture ==
    pub_pc = "publish" => sink.expiry_time >= sink.at + ExpiryMinutes

\* C7: when stream_position has left an epoch and waits the retry delay, every
\* task created for that epoch, the connection monitor included, has finished.
C7_EpochTasksFinished == sup_pc = "retry" => alive = {}

\* C8: under either entry point the queue never holds more than 10 samples.
C8_QueueBounded == Len(queue) <= QueueMaxsize

\* C9: a step that enqueues happens only with all four fields of telemetry_data
\* non-null, and every tuple put into the queue has four non-null components.
C9_NoIncompleteEnqueue ==
    [][Len(queue') = Len(queue) + 1 =>
          /\ all_values(telemetry_data)
          /\ \A i \in 1..4 : queue'[Len(queue')][i] # None]_vars

\* C9 witness: the sampler runs, connected, with exactly three of the four
\* fields populated, and nothing has been enqueued for the waiting publisher.
C9_Witness ==
    /\ running(attempt, "sampler")
    /\ is_connected
    /\ Cardinality({f \in Fields : telemetry_data[f] # None}) = 3
    /\ queue = <<>>
    /\ pub_pc = "get"

\* C10: every publish_entity call is made for a sample dequeued in that very
\* step, and after a call that raises the loop is back at its top with the
\* failed sample gone (neither kept for a retry nor put back into the queue).
C10_FailedSampleDiscarded ==
    [][/\ pub_pc' = "publish" =>
            /\ pub_pc # "publish"
            /\ queue # <<>>
            /\ sink'.sample = Head(queue)
            /\ queue' = Tail(queue)
       /\ (pub_pc = "publish" /\ ~sink.ok) =>
            /\ pub_pc' = "top"
            /\ sink' = None
            /\ queue' = queue]_vars

\* C10 witness: a publish_entity call raises while the next sample is queued.
C10_Witness == pub_pc = "publish" /\ ~sink.ok /\ queue # <<>>

\* C12: each time stream_position begins a new connect attempt after a
\* teardown, all four fields of telemetry_data are null.
C12_SnapshotFreshAtEpochStart ==
    [][(sup_pc = "retry" /\ sup_pc' = "connect")
          => \A f \in Fields : telemetry_data[f] = None]_vars

\* The teardown of an epoch whose tasks stream_position had spawned
epoch_torn_down ==
    /\ sup_pc \in {"set_rate", "wait"}
    /\ sup_pc' = "retry"
    /\ tasks' = epoch_tasks(attempt)

\* C17: an epoch whose tasks were spawned is torn down only after its
\* connection monitor has reported loss (and ended) or, once the epoch is
\* active, one of its field tasks has ended.
C17_TeardownOnlyOnTrigger ==
    [][epoch_torn_down
          => \/ ~running(attempt, "connection")
             \/ (sup_pc = "wait" /\ field_task_dead)]_vars

\* C18: after every publish_entity call, returned or raised, the next thing
\* the publisher does is its one-period wait.
C18_WaitAfterEverySinkCall ==
    [][(pub_pc = "publish" /\ pub_pc' # "publish") => pub_pc' = "sleep"]_vars

\* C19: whenever a position sample can arrive while the connection flag is
\* true, telemetry_data["position"] equals that sample right afterwards, for
\* every sample value, a latitude of 0 included.
C19_PositionLastWriteWins ==
    \A a \in Attempts : \A position \in PositionSamples :
        (loop_free /\ running(a, "position") /\ is_connected)
            => ENABLED (/\ consume_position(a, position)
                        /\ telemetry_data'["position"] = position)

\* A step that dequeues a complete tuple whose quaternion is not zero
dequeues_valid ==
    /\ queue # <<>>
    /\ queue' = Tail(queue)
    /\ \A i \in 1..4 : Head(queue)[i] # None
    /\ norm2(Head(queue)[4].q) # 0

\* C14: for every dequeued sample the publish_entity call is made (nothing is
\* raised) and its AGL value is the terrain altitude when that is present and
\* finite, and the local altitude when it is missing, nan or infinite.
C14_AltitudeFallback ==
    [][dequeues_valid =>
          /\ pub_pc' = "publish"
          /\ LET terrain == Head(queue)[3].altitude_terrain_m
                 local == Head(queue)[3].altitude_local_m
             IN sink'.altitude_agl_meters =
                  IF terrain # None /\ terrain.k = "finite" THEN terrain ELSE local]_vars

\* C14 witness: a call made for a sample whose terrain altitude is infinite.
C14_Witness ==
    /\ pub_pc = "publish"
    /\ sink.sample[3].altitude_terrain_m = Infinity(1)
    /\ sink.altitude_agl_meters = Finite(3)

\* C15: the velocity of every publish_entity call is (e, n, u) =
\* (east, north, -down) of the sample's NED velocity.
C15_VelocityNedToEnu ==
    pub_pc = "publish" =>
        LET ned == sink.sample[2].velocity
        IN /\ sink.velocity_enu.e = ned.east_m_s
           /\ sink.velocity_enu.n = ned.north_m_s
           /\ sink.velocity_enu.u = 0 - ned.down_m_s

\* C15 witness: a call made for the NED velocity (1, 2, 3).
C15_Witness ==
    /\ pub_pc = "publish"
    /\ sink.sample[2].velocity = [north_m_s |-> 1, east_m_s |-> 2, down_m_s |-> 3]
    /\ sink.velocity_enu = [e |-> 2, n |-> 1, u |-> -3]

\* C16: for every sample whose NED quaternion is of unit norm, the attitude of
\* the publish_entity call is of unit norm.
C16_AttitudeUnitNorm ==
    (pub_pc = "publish" /\ norm2(sink.sample[4].q) = QuatScale * QuatScale)
        => norm2(sink.attitude_enu) = EulerScale2 * QuatScale * QuatScale

\* C16 witness: a call made for the unit quaternion (1, -1, 1, 1)/2.
C16_Witness ==
    /\ pub_pc = "publish"
    /\ sink.sample[4].q = Quat(1, -1, 1, 1)
    /\ sink.attitude_enu # sink.sample[4].q

\* C20: the publisher loop never ends by itself, and whatever happens in an
\* iteration (a failed call, an incomplete tuple, an exception) every tuple
\* waiting in the queue is eventually dequeued.
C20_PublisherNeverStops ==
    /\ [](pub_pc # "done")
    /\ (queue # <<>>) ~> (queue = <<>>)

\* C20 witness: an iteration raised and another tuple is waiting.
C20_Witness == pub_pc = "error_sleep" /\ queue # <<>>

\* C13: a step enqueues at most one tuple, made of the values telemetry_data
\* holds when queue.put is called; a later write to telemetry_data changes no
\* tuple that is queued or held by a suspended put, queued tuples are never
\* changed in place, and the publisher's call is for the tuple at the head.
C13_QueuedTupleIsCopy ==
    [][/\ telemetry_data' # telemetry_data => (queue' = queue /\ pending' = pending)
       /\ Len(queue') > Len(queue) =>
            /\ Len(queue') = Len(queue) + 1
            /\ SubSeq(queue', 1, Len(queue)) = queue
            /\ queue'[Len(queue')] =
                  IF sampler_pc = "put"
                    THEN pending
                    ELSE <<telemetry_data["position"], telemetry_data["velocity"],
                           telemetry_data["altitude"], telemetry_data["odometry"]>>
       /\ Len(queue') <= Len(queue) =>
            \/ queue' = queue
            \/ /\ queue # <<>>
               /\ queue' = Tail(queue)
               /\ pub_pc' = "publish" => sink'.sample = Head(queue)]_vars

\* C13 witness: the velocity of the tuple at the head of the queue is no longer
\* the one telemetry_data holds.
C13_Witness ==
    /\ queue # <<>>
    /\ telemetry_data["velocity"] # None
    /\ Head(queue)[2] # telemetry_data["velocity"]

\* The monitor of the running epoch has reported the loss of the connection
\* (and ended) while stream_position is in its wait loop
loss_reported ==
    sup_pc = "wait" /\ ~running(attempt, "connection") /\ ~is_connected

\* C11: once the connection-state stream has reported loss during an active
\* epoch, stream_position eventually tears the epoch down and awaits the
\* retry delay.
C11_LossLeadsToTeardown == loss_reported ~> (sup_pc = "retry")

====
